---- MODULE Spec2Model ----
(***************************************************************************)
(* Round-Robin scheduling simulator (src/app.js): the tick-driven engine   *)
(* (arrivalsStep, tick), the driver (startSim, stopSim, resetSim,          *)
(* deepReset) and the quantum input (getQuantum).  Rendering and the 3D    *)
(* scene read the state and are left out; the event list (logEvent) is     *)
(* kept because it records which sub-step of tick() did what.              *)
(***************************************************************************)
EXTENDS Integers, Sequences, FiniteSets, TLC

(* ---- bounds of the explored inputs ---- *)
MaxProcs == 2
MaxBurst == 2
MaxArrival == 2
MaxQuantum == 2
ExtraTicks == 1

(* completionTime: null (src/app.js:380) *)
NoTime == -1

(* currentCPU = null (src/app.js:43, 373) *)
NullCPU == [proc |-> 0, qLeft |-> 0]

(* tickHandle = null (src/app.js:42) *)
NoHandle == 0

(* ---- process sets ---- *)
(* the process list shipped with the program, src/app.js:31-36 *)
RepoProcesses ==
  << [burstTime |-> 8, arrivalTime |-> 0],
     [burstTime |-> 5, arrivalTime |-> 2],
     [burstTime |-> 12, arrivalTime |-> 4],
     [burstTime |-> 6, arrivalTime |-> 6] >>

(* spec.md section 8, Scenario A and Scenario B *)
ScenarioA == << [burstTime |-> 8, arrivalTime |-> 0] >>
ScenarioB == << [burstTime |-> 3, arrivalTime |-> 0],
                [burstTime |-> 2, arrivalTime |-> 1] >>

(* spec.md section 4.1, tie-break policy: two processes with the same      *)
(* arrivalTime arrive while a third is running                             *)
SameArrival == << [burstTime |-> 2, arrivalTime |-> 0],
                  [burstTime |-> 1, arrivalTime |-> 1],
                  [burstTime |-> 1, arrivalTime |-> 1] >>

BoundedConfigs ==
  UNION { [1..n -> [burstTime : 1..MaxBurst, arrivalTime : 0..MaxArrival]] :
          n \in 1..MaxProcs }

Configs == BoundedConfigs \cup {RepoProcesses, ScenarioA, ScenarioB, SameArrival}

(* ---- the quantum text field ---- *)
Digits == <<"0", "1", "2", "3", "4", "5", "6", "7", "8", "9">>

IsDigit(c) == \E i \in 1..Len(Digits) : Digits[i] = c

DigitVal(c) == (CHOOSE i \in 1..Len(Digits) : Digits[i] = c) - 1

(* values the text field can hold: empty, negative, and one-digit numbers *)
QuantumInputs ==
  { <<>>, <<"-", "1">>, <<"8">> } \cup { <<Digits[d + 1]>> : d \in 0..MaxQuantum }

RECURSIVE parseDigits(_, _, _)
parseDigits(s, i, acc) ==
  IF i > Len(s) \/ ~IsDigit(s[i]) THEN acc
  ELSE parseDigits(s, i + 1, acc * 10 + DigitVal(s[i]))

(* parseInt(value, 10): optional sign, then the leading decimal digits;   *)
(* NaN when there is no digit                                              *)
parseInt(s) ==
  LET neg == Len(s) >= 1 /\ s[1] = "-"
      first == IF Len(s) >= 1 /\ (s[1] = "-" \/ s[1] = "+") THEN 2 ELSE 1
  IN IF first > Len(s) \/ ~IsDigit(s[first])
       THEN [finite |-> FALSE, n |-> 0]
       ELSE [finite |-> TRUE,
             n |-> IF neg THEN 0 - parseDigits(s, first, 0)
                          ELSE parseDigits(s, first, 0)]

(* faulty variant: only a non-numeric value falls back to 1 *)
getQuantumUnchecked(s) ==
  LET q == parseInt(s)
  IN IF q.finite THEN q.n ELSE 1

getQuantum(s) ==
  LET q == parseInt(s)
  IN IF q.finite /\ q.n > 0 THEN q.n ELSE 1

VARIABLES
  initialProcesses,      \* the process definitions
  processes,             \* the process records of the current run
  readyQueue,            \* sequence of process indices
  currentTime,
  running,
  tickHandle,            \* NoHandle or the id of the interval
  timers,                \* the intervals that are active in the browser
  currentCPU,            \* NullCPU or [proc, qLeft]
  finishedOrder,
  historyList,           \* the event list written by logEvent
  quantumInput,          \* quantumInput.value
  quantumDisplay,        \* quantumDisplayEl.textContent
  startBtnDisabled,
  quantumInputDisabled,
  idleTicks              \* observer: tick() calls that took the idle branch since reset

vars == << initialProcesses, processes, readyQueue, currentTime, running,
           tickHandle, timers, currentCPU, finishedOrder, historyList,
           quantumInput, quantumDisplay, startBtnDisabled,
           quantumInputDisabled, idleTicks >>

Max(a, b) == IF a >= b THEN a ELSE b

RECURSIVE SumBurst(_)
SumBurst(defs) ==
  IF defs = <<>> THEN 0 ELSE defs[1].burstTime + SumBurst(Tail(defs))

RECURSIVE MaxArr(_)
MaxArr(defs) ==
  IF defs = <<>> THEN 0 ELSE Max(defs[1].arrivalTime, MaxArr(Tail(defs)))

(* no run needs more ticks than this; ticks beyond it are not explored *)
TimeCap(defs) == SumBurst(defs) + MaxArr(defs) + ExtraTicks

(* ---- the engine state handed through the sub-steps of tick() ---- *)
Engine ==
  [processes |-> processes, readyQueue |-> readyQueue,
   currentTime |-> currentTime, currentCPU |-> currentCPU,
   finishedOrder |-> finishedOrder, historyList |-> historyList,
   idleTicks |-> idleTicks]

(* Every step below binds the engine state it receives once               *)
(* (S \in {S0}): the state is then a value, evaluated a single time.       *)
logEvent(S0, kind, i) ==
  CHOOSE R \in
    { [S EXCEPT !.historyList =
         Append(@, [t |-> S.currentTime, ev |-> kind, id |-> i])]
      : S \in {S0} } : TRUE

(* faulty variant: a process is due only after its arrival time has passed *)
isDueLate(p, t) == ~p.arrived /\ p.arrivalTime < t

isDue(p, t) == ~p.arrived /\ p.arrivalTime <= t

(* faulty variant: the process is queued without being marked arrived *)
arriveUnmarked(S0, i) ==
  CHOOSE R \in
    { logEvent([S EXCEPT !.readyQueue = Append(@, i)], "arrived", i)
      : S \in {S0} } : TRUE

arrive(S0, i) ==
  CHOOSE R \in
    { logEvent([S EXCEPT !.processes[i].arrived = TRUE,
                         !.readyQueue = Append(@, i)],
               "arrived", i)
      : S \in {S0} } : TRUE

RECURSIVE arrivalsLoop(_, _)
arrivalsLoop(S0, i) ==
  CHOOSE R \in
    { IF i > Len(S.processes) THEN S
      ELSE arrivalsLoop(IF isDue(S.processes[i], S.currentTime)
                          THEN arrive(S, i) ELSE S,
                        i + 1)
      : S \in {S0} } : TRUE

arrivalsStep(S) == arrivalsLoop(S, 1)

(* faulty variant: some() in place of every() *)
someFinished(procs) == \E i \in 1..Len(procs) : procs[i].finished

allFinished(procs) == \A i \in 1..Len(procs) : procs[i].finished

(* faulty variant: the dispatch takes the tail of the queue *)
dispatchLast(S0, quantum) ==
  CHOOSE R \in
    { IF S.currentCPU = NullCPU /\ Len(S.readyQueue) > 0
        THEN logEvent([S EXCEPT !.currentCPU = [proc |-> S.readyQueue[Len(S.readyQueue)],
                                                qLeft |-> quantum],
                                !.readyQueue = SubSeq(@, 1, Len(@) - 1)],
                      "cpu", S.readyQueue[Len(S.readyQueue)])
        ELSE S
      : S \in {S0} } : TRUE

(* faulty variant: the queue must hold more than one process for a dispatch *)
dispatchOffByOne(S0, quantum) ==
  CHOOSE R \in
    { IF S.currentCPU = NullCPU /\ Len(S.readyQueue) > 1
        THEN logEvent([S EXCEPT !.currentCPU = [proc |-> Head(S.readyQueue),
                                                qLeft |-> quantum],
                                !.readyQueue = Tail(@)],
                      "cpu", Head(S.readyQueue))
        ELSE S
      : S \in {S0} } : TRUE

dispatch(S0, quantum) ==
  CHOOSE R \in
    { IF S.currentCPU = NullCPU /\ Len(S.readyQueue) > 0
        THEN logEvent([S EXCEPT !.currentCPU = [proc |-> Head(S.readyQueue),
                                                qLeft |-> quantum],
                                !.readyQueue = Tail(@)],
                      "cpu", Head(S.readyQueue))
        ELSE S
      : S \in {S0} } : TRUE

(* faulty variant: the head of the queue is not counted as waiting *)
accrueWaitingButHead(procs, queue) ==
  [i \in 1..Len(procs) |->
     IF \E k \in 2..Len(queue) : queue[k] = i
       THEN [procs[i] EXCEPT !.waitingTime = @ + 1]
       ELSE procs[i]]

accrueWaiting(procs, queue) ==
  [i \in 1..Len(procs) |->
     IF \E k \in 1..Len(queue) : queue[k] = i
       THEN [procs[i] EXCEPT !.waitingTime = @ + 1]
       ELSE procs[i]]

(* faulty variant: a unit of execution counts twice *)
runUnitTwice(p) == [p EXCEPT !.remainingTime = Max(0, @ - 2)]

runUnit(p) == [p EXCEPT !.remainingTime = Max(0, @ - 1)]

execute(S0) ==
  CHOOSE R \in
    { [S EXCEPT !.processes =
                  [accrueWaiting(S.processes, S.readyQueue)
                     EXCEPT ![S.currentCPU.proc] = runUnit(@)],
                !.currentCPU.qLeft = Max(0, @ - 1),
                !.currentTime = @ + 1]
      : S \in {S0} } : TRUE

moveToFinished(order, i) ==
  IF \E k \in 1..Len(order) : order[k] = i THEN order ELSE Append(order, i)

finish(S0, p) ==
  CHOOSE R \in
    { [logEvent([S EXCEPT !.processes[p].finished = TRUE,
                          !.processes[p].completionTime = S.currentTime],
                "finished", p)
         EXCEPT !.finishedOrder = moveToFinished(@, p),
                !.currentCPU = NullCPU]
      : S \in {S0} } : TRUE

(* faulty variant: the preempted process is queued but stays in the CPU slot *)
preemptKeepsSlot(S0, p) ==
  CHOOSE R \in
    { logEvent([S EXCEPT !.readyQueue = Append(@, p)], "expired", p)
      : S \in {S0} } : TRUE

(* faulty variant: the preempted process is dropped instead of queued *)
preemptDrops(S0, p) ==
  CHOOSE R \in
    { [logEvent(S, "expired", p) EXCEPT !.currentCPU = NullCPU]
      : S \in {S0} } : TRUE

(* faulty variant: the preempted process goes to the head of the queue *)
preemptToHead(S0, p) ==
  CHOOSE R \in
    { [logEvent([S EXCEPT !.readyQueue = <<p>> \o @], "expired", p)
         EXCEPT !.currentCPU = NullCPU]
      : S \in {S0} } : TRUE

preempt(S0, p) ==
  CHOOSE R \in
    { [logEvent([S EXCEPT !.readyQueue = Append(@, p)], "expired", p)
         EXCEPT !.currentCPU = NullCPU]
      : S \in {S0} } : TRUE

(* faulty variant: no preemption when nobody else is waiting *)
settleKeepsLoneProcess(S0, p) ==
  CHOOSE R \in
    { IF S.processes[p].remainingTime = 0 THEN finish(S, p)
      ELSE IF S.currentCPU.qLeft = 0 /\ Len(S.readyQueue) > 0 THEN preempt(S, p)
      ELSE S
      : S \in {S0} } : TRUE

(* faulty variant: quantum expiry is looked at before completion *)
settleExpiryFirst(S0, p) ==
  CHOOSE R \in
    { IF S.currentCPU.qLeft = 0 THEN preempt(S, p)
      ELSE IF S.processes[p].remainingTime = 0 THEN finish(S, p)
      ELSE S
      : S \in {S0} } : TRUE

settle(S0, p) ==
  CHOOSE R \in
    { IF S.processes[p].remainingTime = 0 THEN finish(S, p)
      ELSE IF S.currentCPU.qLeft = 0 THEN preempt(S, p)
      ELSE S
      : S \in {S0} } : TRUE

(* faulty variant: an idle unit is not counted by the clock *)
idleUnitNoClock(S0) ==
  CHOOSE R \in { [S EXCEPT !.idleTicks = @ + 1] : S \in {S0} } : TRUE

idleUnit(S0) ==
  CHOOSE R \in
    { [S EXCEPT !.currentTime = @ + 1, !.idleTicks = @ + 1] : S \in {S0} } : TRUE

(* faulty variant: no arrival scan after the clock has advanced *)
tickNoPostScan(S0, quantum) ==
  CHOOSE R \in
    { IF S2.currentCPU # NullCPU /\ S2.currentCPU.proc # 0
        THEN settle(execute(S2), S2.currentCPU.proc)
        ELSE idleUnit(S2)
      : S2 \in {dispatch(arrivalsStep(S0), quantum)} } : TRUE

(* faulty variant: the quantum is read again in every executed unit *)
tickRereadsQuantum(S0, quantum) ==
  CHOOSE R \in
    { IF S2.currentCPU # NullCPU /\ S2.currentCPU.proc # 0
        THEN settle(arrivalsStep(execute(
                      [S2 EXCEPT !.currentCPU.qLeft = IF @ > quantum THEN quantum ELSE @])),
                    S2.currentCPU.proc)
        ELSE arrivalsStep(idleUnit(S2))
      : S2 \in {dispatch(arrivalsStep(S0), quantum)} } : TRUE

tick(S0, quantum) ==
  CHOOSE R \in
    { IF S2.currentCPU # NullCPU /\ S2.currentCPU.proc # 0
        THEN settle(arrivalsStep(execute(S2)), S2.currentCPU.proc)
        ELSE arrivalsStep(idleUnit(S2))
      : S2 \in {dispatch(arrivalsStep(S0), quantum)} } : TRUE

(* faulty variant: a process with arrivalTime 0 starts as arrived *)
freshProcessArrivedAtZero(d) ==
  [burstTime |-> d.burstTime, arrivalTime |-> d.arrivalTime,
   remainingTime |-> d.burstTime, waitingTime |-> 0,
   completionTime |-> NoTime, arrived |-> (d.arrivalTime = 0), finished |-> FALSE]

freshProcess(d) ==
  [burstTime |-> d.burstTime, arrivalTime |-> d.arrivalTime,
   remainingTime |-> d.burstTime, waitingTime |-> 0,
   completionTime |-> NoTime, arrived |-> FALSE, finished |-> FALSE]

freshProcesses(defs) == [i \in 1..Len(defs) |-> freshProcess(defs[i])]

(* setInterval: the browser hands out an id that no active interval has *)
newTimerId(active) == CHOOSE id \in 1..(Cardinality(active) + 1) : id \notin active

(* ---- initial state: DOMContentLoaded has run deepReset() ---- *)
Init ==
  /\ initialProcesses \in Configs
  /\ quantumInput \in QuantumInputs
  /\ processes = freshProcesses(initialProcesses)
  /\ readyQueue = <<>>
  /\ currentTime = 0
  /\ running = FALSE
  /\ tickHandle = NoHandle
  /\ timers = {}
  /\ currentCPU = NullCPU
  /\ finishedOrder = <<>>
  /\ historyList = <<>>
  /\ quantumDisplay = getQuantum(quantumInput)
  /\ startBtnDisabled = FALSE
  /\ quantumInputDisabled = FALSE
  /\ idleTicks = 0

(* ---- driver ---- *)
(* click on Start: startSim() *)
StartSim ==
  /\ ~startBtnDisabled
  /\ IF running
       THEN UNCHANGED << running, startBtnDisabled, quantumInputDisabled,
                         tickHandle, timers >>
       ELSE /\ running' = TRUE
            /\ startBtnDisabled' = TRUE
            /\ quantumInputDisabled' = TRUE
            /\ tickHandle' = newTimerId(timers)
            /\ timers' = timers \cup {newTimerId(timers)}
  /\ UNCHANGED << initialProcesses, processes, readyQueue, currentTime,
                  currentCPU, finishedOrder, historyList, quantumInput,
                  quantumDisplay, idleTicks >>

(* an active interval fires: tick(), with stopSim() when all are finished *)
TimerTick ==
  /\ timers # {}
  /\ currentTime < TimeCap(initialProcesses)
  /\ \E S \in {tick(Engine, getQuantum(quantumInput))} :
        /\ processes' = S.processes
        /\ readyQueue' = S.readyQueue
        /\ currentTime' = S.currentTime
        /\ currentCPU' = S.currentCPU
        /\ finishedOrder' = S.finishedOrder
        /\ historyList' = S.historyList
        /\ idleTicks' = S.idleTicks
        /\ timers' = IF allFinished(S.processes) THEN timers \ {tickHandle} ELSE timers
        /\ tickHandle' = IF allFinished(S.processes) THEN NoHandle ELSE tickHandle
        /\ running' = IF allFinished(S.processes) THEN FALSE ELSE running
        /\ startBtnDisabled' = IF allFinished(S.processes) THEN FALSE ELSE startBtnDisabled
        /\ quantumInputDisabled' =
             IF allFinished(S.processes) THEN FALSE ELSE quantumInputDisabled
  /\ UNCHANGED << initialProcesses, quantumInput, quantumDisplay >>

(* faulty variant: the reset leaves the interval running *)
ResetSimKeepsTimer ==
  /\ timers' = timers
  /\ tickHandle' = NoHandle
  /\ running' = FALSE
  /\ startBtnDisabled' = FALSE
  /\ quantumInputDisabled' = FALSE
  /\ currentTime' = 0
  /\ currentCPU' = NullCPU
  /\ finishedOrder' = <<>>
  /\ readyQueue' = <<>>
  /\ processes' = freshProcesses(initialProcesses)
  /\ quantumDisplay' = getQuantum(quantumInput)
  /\ historyList' = <<>>
  /\ idleTicks' = 0
  /\ UNCHANGED << initialProcesses, quantumInput >>

(* click on Reset: resetSim() = stopSim(); deepReset() *)
ResetSim ==
  /\ timers' = timers \ {tickHandle}
  /\ tickHandle' = NoHandle
  /\ running' = FALSE
  /\ startBtnDisabled' = FALSE
  /\ quantumInputDisabled' = FALSE
  /\ currentTime' = 0
  /\ currentCPU' = NullCPU
  /\ finishedOrder' = <<>>
  /\ readyQueue' = <<>>
  /\ processes' = freshProcesses(initialProcesses)
  /\ quantumDisplay' = getQuantum(quantumInput)
  /\ historyList' = <<>>
  /\ idleTicks' = 0
  /\ UNCHANGED << initialProcesses, quantumInput >>

(* the user edits the quantum field: the 'input' listener *)
EditQuantum ==
  /\ ~quantumInputDisabled
  /\ \E v \in QuantumInputs :
       /\ v # quantumInput
       /\ quantumInput' = v
       /\ quantumDisplay' = getQuantum(v)
  /\ UNCHANGED << initialProcesses, processes, readyQueue, currentTime, running,
                  tickHandle, timers, currentCPU, finishedOrder, historyList,
                  startBtnDisabled, quantumInputDisabled, idleTicks >>

Next == StartSim \/ TimerTick \/ ResetSim \/ EditQuantum

Spec == Init /\ [][Next]_vars

(* ---- vocabulary of the properties ---- *)
Procs == 1..Len(processes)

InQueue(i) == \E k \in 1..Len(readyQueue) : readyQueue[k] = i

QueueCount(i) == Cardinality({k \in 1..Len(readyQueue) : readyQueue[k] = i})

OnCPU(i) == currentCPU # NullCPU /\ currentCPU.proc = i

AllDone == \A i \in Procs : processes[i].finished

(* a step that is one tick() call: only tick() advances the clock *)
IsTick == currentTime' = currentTime + 1

(* processes the pre-scan of the next tick() will enqueue *)
PreDue == {i \in Procs : ~processes[i].arrived /\ processes[i].arrivalTime <= currentTime}

(* the process that executes in the next tick(): the occupant of the CPU  *)
(* slot, else the head of the queue, else the first process in declaration *)
(* order that the pre-scan enqueues; 0 when there is none                  *)
RunsNext ==
  IF currentCPU # NullCPU THEN currentCPU.proc
  ELSE IF Len(readyQueue) > 0 THEN Head(readyQueue)
  ELSE IF PreDue # {} THEN CHOOSE i \in PreDue : \A j \in PreDue : i <= j
  ELSE 0

(* C1: every finished process has                                          *)
(* waitingTime = (completionTime - arrivalTime) - burstTime, where         *)
(* waitingTime is the counter tick() increments for queued processes.      *)
C1_WaitingIdentity ==
  \A i \in Procs :
    processes[i].finished =>
      processes[i].waitingTime =
        (processes[i].completionTime - processes[i].arrivalTime) - processes[i].burstTime

(* a process that waited in the queue, also after a preemption, has finished *)
C1_Witness ==
  \E i \in Procs :
    /\ processes[i].finished
    /\ processes[i].waitingTime >= 2
    /\ \E k \in 1..Len(historyList) :
         historyList[k].ev = "expired" /\ historyList[k].id = i

(* C2: ready queue, CPU slot and finished set are pairwise disjoint, the   *)
(* queue holds no process twice, an arrived process is in exactly one of   *)
(* the three and a process that has not arrived is in none.                *)
C2_ExactlyOnePlace ==
  \A i \in Procs :
    QueueCount(i) + (IF OnCPU(i) THEN 1 ELSE 0) + (IF processes[i].finished THEN 1 ELSE 0)
      = (IF processes[i].arrived THEN 1 ELSE 0)

(* the three places are occupied at once, one of them after a preemption *)
C2_Witness ==
  /\ \E i \in Procs : InQueue(i) /\ processes[i].remainingTime < processes[i].burstTime
  /\ \E i \in Procs : OnCPU(i)
  /\ \E i \in Procs : processes[i].finished

C3_RemainingRange ==
  \A i \in Procs :
    /\ 0 <= processes[i].remainingTime
    /\ processes[i].remainingTime <= processes[i].burstTime
    /\ processes[i].finished => processes[i].remainingTime = 0

C3_TickStep ==
  IsTick =>
    \A i \in Procs :
      processes'[i].remainingTime =
        processes[i].remainingTime - (IF i = RunsNext THEN 1 ELSE 0)

(* C3: 0 <= remainingTime <= burstTime and finished => remainingTime = 0  *)
(* in every state; one tick() lowers remainingTime by exactly 1 for the    *)
(* process that executes in it and leaves every other process's unchanged. *)
C3_Conservation == [](C3_RemainingRange) /\ [][C3_TickStep]_vars

(* a preempted process with part of its burst done waits while another runs *)
C3_Witness ==
  \E i, j \in Procs :
    /\ InQueue(i)
    /\ 0 < processes[i].remainingTime
    /\ processes[i].remainingTime < processes[i].burstTime
    /\ OnCPU(j)
    /\ processes[j].remainingTime < processes[j].burstTime

(* ---- a run whose driver keeps ticking: no Reset click, and the interval  *)
(* timer set by startSim() fires as long as it is active                   *)
NextRun == StartSim \/ TimerTick \/ EditQuantum

LiveSpec == Init /\ [][NextRun]_vars /\ WF_vars(TimerTick)

(* C4: while the driver keeps issuing ticks, a started simulation          *)
(* eventually reaches a state in which every process is finished.          *)
C4_Termination == running ~> AllDone

(* a run with a preemption and an idle tick has completed *)
C4_Witness ==
  /\ AllDone
  /\ idleTicks >= 1
  /\ \E k \in 1..Len(historyList) : historyList[k].ev = "expired"

MinArrival == CHOOSE a \in {initialProcesses[i].arrivalTime : i \in Procs} :
                \A i \in Procs : a <= initialProcesses[i].arrivalTime

(* C5 as stated: at the tick that completes the run, currentTime equals    *)
(* the sum of the burst times plus the idle ticks before the first arrival *)
(* (the earliest arrivalTime).                                             *)
C5_Original ==
  [][(IsTick /\ ~AllDone /\ AllDone') =>
       currentTime' = SumBurst(initialProcesses) + MinArrival]_vars

(* C5 amended: once every process is finished, currentTime equals the sum  *)
(* of the burst times plus the number of all idle ticks since reset, those *)
(* between two arrivals included.                                          *)
C5_TicksToCompletion ==
  AllDone => currentTime = SumBurst(initialProcesses) + idleTicks

(* a completed run with an idle tick after the first arrival *)
C5_Witness ==
  /\ AllDone
  /\ ~running
  /\ idleTicks > MinArrival
  /\ currentTime = SumBurst(initialProcesses) + idleTicks

(* ---- Scenario B, quantum 2 ---- *)
Ev(t, kind, i) == [t |-> t, ev |-> kind, id |-> i]

ProcB1(rem, w, ct, arr, fin) ==
  [burstTime |-> 3, arrivalTime |-> 0, remainingTime |-> rem, waitingTime |-> w,
   completionTime |-> ct, arrived |-> arr, finished |-> fin]

ProcB2(rem, w, ct, arr, fin) ==
  [burstTime |-> 2, arrivalTime |-> 1, remainingTime |-> rem, waitingTime |-> w,
   completionTime |-> ct, arrived |-> arr, finished |-> fin]

(* the event list of the whole run *)
ScenarioBLog ==
  << Ev(0, "arrived", 1), Ev(0, "cpu", 1), Ev(1, "arrived", 2),
     Ev(2, "expired", 1),
     Ev(2, "cpu", 2),
     Ev(4, "finished", 2),
     Ev(4, "cpu", 1), Ev(5, "finished", 1) >>

(* the expected state after the k-th tick, k = 1..5 *)
ScenarioBTrace ==
  << [processes |-> << ProcB1(2, 0, NoTime, TRUE, FALSE), ProcB2(2, 0, NoTime, TRUE, FALSE) >>,
      readyQueue |-> <<2>>, currentCPU |-> [proc |-> 1, qLeft |-> 1], events |-> 3],
     [processes |-> << ProcB1(1, 0, NoTime, TRUE, FALSE), ProcB2(2, 1, NoTime, TRUE, FALSE) >>,
      readyQueue |-> <<2, 1>>, currentCPU |-> NullCPU, events |-> 4],
     [processes |-> << ProcB1(1, 1, NoTime, TRUE, FALSE), ProcB2(1, 1, NoTime, TRUE, FALSE) >>,
      readyQueue |-> <<1>>, currentCPU |-> [proc |-> 2, qLeft |-> 1], events |-> 5],
     [processes |-> << ProcB1(1, 2, NoTime, TRUE, FALSE), ProcB2(0, 1, 4, TRUE, TRUE) >>,
      readyQueue |-> <<1>>, currentCPU |-> NullCPU, events |-> 6],
     [processes |-> << ProcB1(0, 2, 5, TRUE, TRUE), ProcB2(0, 1, 4, TRUE, TRUE) >>,
      readyQueue |-> <<>>, currentCPU |-> NullCPU, events |-> 8] >>

OnScenarioBTrace ==
  /\ currentTime \in 1..5
  /\ processes = ScenarioBTrace[currentTime].processes
  /\ readyQueue = ScenarioBTrace[currentTime].readyQueue
  /\ currentCPU = ScenarioBTrace[currentTime].currentCPU
  /\ historyList = SubSeq(ScenarioBLog, 1, ScenarioBTrace[currentTime].events)

(* C6: Scenario B with quantum 2: P1 executes ticks 1 and 2, P2 is         *)
(* enqueued by the post-scan of tick 1, P1 is preempted at time 2 behind   *)
(* P2, P2 executes ticks 3 and 4 and finishes at 4, P1 finishes at 5, with *)
(* waitingTime 2 for P1 and 1 for P2.                                      *)
C6_ScenarioB ==
  [][(/\ initialProcesses = ScenarioB
      /\ getQuantum(quantumInput) = 2
      /\ running
      /\ currentTime < 5
      /\ IsTick) => OnScenarioBTrace']_vars

(* the end of the Scenario B run *)
C6_Witness ==
  /\ initialProcesses = ScenarioB
  /\ currentTime = 5
  /\ ~running
  /\ historyList = ScenarioBLog
  /\ processes[1].waitingTime = 2 /\ processes[1].completionTime = 5
  /\ processes[2].waitingTime = 1 /\ processes[2].completionTime = 4

(* the quantum left, before the execution step, to the process that        *)
(* executes in the next tick(): what is left of its dispatch, or a fresh   *)
(* quantum when it is dispatched in that tick                              *)
QLeftNext ==
  IF currentCPU # NullCPU THEN currentCPU.qLeft ELSE getQuantum(quantumInput)

ScenarioALog == << Ev(0, "arrived", 1), Ev(0, "cpu", 1), Ev(8, "finished", 1) >>

C7_CompletionFirst ==
  (IsTick /\ RunsNext # 0 /\ processes[RunsNext].remainingTime = 1 /\ QLeftNext = 1) =>
     /\ processes'[RunsNext].finished
     /\ processes'[RunsNext].completionTime = currentTime'
     /\ \A k \in 1..Len(readyQueue') : readyQueue'[k] # RunsNext
     /\ currentCPU' = NullCPU
     /\ historyList'[Len(historyList')] = Ev(currentTime', "finished", RunsNext)

C7_ScenarioAStep ==
  (/\ initialProcesses = ScenarioA
   /\ getQuantum(quantumInput) = 8
   /\ running
   /\ currentTime < 8
   /\ IsTick) =>
     IF currentTime' < 8
       THEN /\ currentCPU' = [proc |-> 1, qLeft |-> 8 - currentTime']
            /\ ~processes'[1].finished
            /\ processes'[1].remainingTime = 8 - currentTime'
            /\ readyQueue' = <<>>
       ELSE /\ processes'[1].finished
            /\ processes'[1].completionTime = 8
            /\ processes'[1].waitingTime = 0
            /\ currentCPU' = NullCPU
            /\ readyQueue' = <<>>
            /\ historyList' = ScenarioALog

(* C7: when remainingTime and the quantum run out in the same tick the     *)
(* process is finished with completionTime = currentTime and is not put    *)
(* back in the queue; Scenario A (burst 8, arrival 0, quantum 8) finishes  *)
(* at currentTime 8 after one dispatch with waitingTime 0.                 *)
C7_CompletionOverExpiry == [][C7_CompletionFirst /\ C7_ScenarioAStep]_vars

(* the end of the Scenario A run with quantum 8 *)
C7_Witness ==
  /\ initialProcesses = ScenarioA
  /\ currentTime = 8
  /\ processes[1].finished
  /\ processes[1].completionTime = 8
  /\ processes[1].waitingTime = 0
  /\ historyList = ScenarioALog

ArrivalEvents(i) ==
  {k \in 1..Len(historyList) : historyList[k] = Ev(processes[i].arrivalTime, "arrived", i)}

C8_ArrivedState ==
  \A i \in Procs :
    /\ currentTime >= 1 => (processes[i].arrived <=> processes[i].arrivalTime <= currentTime)
    /\ currentTime = 0 => ~processes[i].arrived
    /\ Cardinality({k \in 1..Len(historyList) :
                      historyList[k].ev = "arrived" /\ historyList[k].id = i})
         = (IF processes[i].arrived THEN 1 ELSE 0)
    /\ processes[i].arrived => Cardinality(ArrivalEvents(i)) = 1

C8_ArrivalStep ==
  \A i \in Procs :
    /\ IsTick =>
         ((~processes[i].arrived /\ processes'[i].arrived) <=>
            \/ processes[i].arrivalTime = currentTime'
            \/ (processes[i].arrivalTime = 0 /\ currentTime = 0))
    /\ (processes[i].arrived /\ currentTime' # 0) => processes'[i].arrived

(* C8: after every tick() a process is marked arrived iff its arrivalTime  *)
(* <= currentTime; it is enqueued by an arrival scan exactly once, in the  *)
(* tick whose clock increment reaches its arrivalTime (arrivalTime 0: in   *)
(* the pre-scan of the first tick), and arrived is not reset within a run. *)
C8_Arrivals == [](C8_ArrivedState) /\ [][C8_ArrivalStep]_vars

(* one process has arrived after an idle wait, a later one has not yet *)
C8_Witness ==
  \E i, j \in Procs :
    /\ processes[i].arrived /\ processes[i].arrivalTime >= 1
    /\ ~processes[j].arrived /\ processes[j].arrivalTime > currentTime
    /\ currentTime >= 1

(* no arrived, unfinished process exists once the pre-scan has run *)
NoneEligible ==
  \A i \in Procs : (processes[i].arrived \/ i \in PreDue) => processes[i].finished

TookIdleBranch == idleTicks' = idleTicks + 1

C9_IdleStep ==
  TimerTick =>
    /\ TookIdleBranch <=> NoneEligible
    /\ ~TookIdleBranch => idleTicks' = idleTicks
    /\ TookIdleBranch =>
         /\ readyQueue = <<>>
         /\ PreDue = {}
         /\ currentCPU = NullCPU /\ currentCPU' = NullCPU
         /\ \A k \in Len(historyList) + 1 .. Len(historyList') :
              historyList'[k].ev = "arrived" /\ historyList'[k].t = currentTime'
         /\ \A i \in Procs :
              /\ processes'[i].waitingTime = processes[i].waitingTime
              /\ processes'[i].remainingTime = processes[i].remainingTime
         /\ currentTime' = currentTime + 1

(* C9: a tick() takes the idle branch iff no arrived, unfinished process   *)
(* exists after the pre-scan; in an idle tick the ready queue is empty, no *)
(* waitingTime or remainingTime changes and the clock advances by 1.       *)
C9_IdleTick == [][C9_IdleStep]_vars

(* an idle tick between the end of one process and the arrival of another *)
C9_Witness ==
  /\ idleTicks >= 1
  /\ currentCPU = NullCPU
  /\ \E i \in Procs : processes[i].finished /\ processes[i].completionTime < currentTime
  /\ \E j \in Procs : ~processes[j].finished /\ processes[j].arrivalTime >= currentTime

(* ---- the queue order of one tick(), stated from the pre-state ---- *)
RECURSIVE AscSeq(_)
AscSeq(set) ==
  IF set = {} THEN <<>>
  ELSE LET m == CHOOSE i \in set : \A j \in set : i <= j
       IN <<m>> \o AscSeq(set \ {m})

ArrivalEvs(ids, t) == [k \in 1..Len(ids) |-> Ev(t, "arrived", ids[k])]

QueueAfterPreScan == readyQueue \o AscSeq(PreDue)

Dispatches == currentCPU = NullCPU /\ QueueAfterPreScan # <<>>

QueueAfterDispatch ==
  IF Dispatches THEN Tail(QueueAfterPreScan) ELSE QueueAfterPreScan

PostDue ==
  {i \in Procs : /\ ~processes[i].arrived
                 /\ i \notin PreDue
                 /\ processes[i].arrivalTime <= currentTime + 1}

C10_QueueStep ==
  TimerTick =>
    LET run == RunsNext
        done == run # 0 /\ processes'[run].finished /\ ~processes[run].finished
        preempted == run # 0 /\ ~processes'[run].finished /\ currentCPU' = NullCPU
    IN /\ Dispatches => run = Head(QueueAfterPreScan)
       /\ readyQueue' = QueueAfterDispatch \o AscSeq(PostDue)
                          \o (IF preempted THEN <<run>> ELSE <<>>)
       /\ SubSeq(historyList', Len(historyList) + 1, Len(historyList')) =
            ArrivalEvs(AscSeq(PreDue), currentTime)
              \o (IF Dispatches THEN <<Ev(currentTime, "cpu", Head(QueueAfterPreScan))>>
                                ELSE <<>>)
              \o ArrivalEvs(AscSeq(PostDue), currentTime + 1)
              \o (IF done THEN <<Ev(currentTime + 1, "finished", run)>>
                  ELSE IF preempted THEN <<Ev(currentTime + 1, "expired", run)>>
                  ELSE <<>>)

(* C10: within one tick() processes are appended to the queue tail in this *)
(* order: the arrivals of a scan in declaration order, then the process    *)
(* preempted in that tick after all arrivals of the pre- and post-scan;    *)
(* dispatch removes the head, so dispatch order is enqueue order.          *)
C10_QueueOrder == [][C10_QueueStep]_vars

(* two processes arrived in one post-scan and the process preempted in the *)
(* same tick stands behind them                                            *)
C10_Witness ==
  /\ initialProcesses = SameArrival
  /\ currentTime = 1
  /\ readyQueue = <<2, 3, 1>>
  /\ historyList = << Ev(0, "arrived", 1), Ev(0, "cpu", 1), Ev(1, "arrived", 2),
                      Ev(1, "arrived", 3), Ev(1, "expired", 1) >>

(* ---- the quantum field written by a script ---- *)
(* quantumInput.disabled only keeps the user from typing: an assignment to *)
(* quantumInput.value by a script changes what getQuantum() reads while    *)
(* the simulation runs.  No 'input' event fires, so the display keeps the  *)
(* old value; one such assignment is explored until the display is         *)
(* written again.                                                          *)
SetQuantumValue ==
  /\ quantumInputDisabled
  /\ quantumDisplay = getQuantum(quantumInput)
  /\ \E v \in QuantumInputs :
       /\ v # quantumInput
       /\ quantumInput' = v
  /\ UNCHANGED << initialProcesses, processes, readyQueue, currentTime, running,
                  tickHandle, timers, currentCPU, finishedOrder, historyList,
                  quantumDisplay, startBtnDisabled, quantumInputDisabled, idleTicks >>

ScriptNext == StartSim \/ TimerTick \/ ResetSim \/ EditQuantum \/ SetQuantumValue

(* the process sets explored with script writes: the named ones, and the   *)
(* bounded ones whose processes are all present from the start             *)
ScriptConfigs ==
  {RepoProcesses, ScenarioA, ScenarioB, SameArrival}
    \cup {c \in BoundedConfigs : \A i \in 1..Len(c) : c[i].arrivalTime = 0}

ScriptInit == Init /\ initialProcesses \in ScriptConfigs

ScriptSpec == ScriptInit /\ [][ScriptNext]_vars

C11_OccupiedStep ==
  (TimerTick /\ currentCPU # NullCPU) =>
     LET p == currentCPU.proc
     IN IF processes[p].remainingTime = 1
          THEN processes'[p].finished /\ currentCPU' = NullCPU
        ELSE IF currentCPU.qLeft = 1
          THEN /\ currentCPU' = NullCPU
               /\ Len(readyQueue') >= 1 /\ readyQueue'[Len(readyQueue')] = p
        ELSE currentCPU' = [proc |-> p, qLeft |-> currentCPU.qLeft - 1]

C11_DispatchStep ==
  (TimerTick /\ currentCPU = NullCPU /\ RunsNext # 0) =>
     LET p == RunsNext
         q == getQuantum(quantumInput)
     IN IF processes[p].remainingTime = 1
          THEN processes'[p].finished /\ currentCPU' = NullCPU
        ELSE IF q = 1
          THEN /\ currentCPU' = NullCPU
               /\ Len(readyQueue') >= 1 /\ readyQueue'[Len(readyQueue')] = p
        ELSE currentCPU' = [proc |-> p, qLeft |-> q - 1]

C11_ChangeStep == quantumInput' # quantumInput => currentCPU' = currentCPU

(* C11: a change of the quantum while a process occupies the CPU slot does *)
(* not alter that dispatch's quantumRemaining: the change leaves the slot  *)
(* as it is, every later tick of the dispatch counts quantumRemaining down *)
(* by 1 whatever the field holds and preempts when it reaches 0, and the   *)
(* field is read again only at the next dispatch.                          *)
C11_QuantumAtDispatch ==
  [][C11_OccupiedStep /\ C11_DispatchStep /\ C11_ChangeStep]_vars

(* mid-dispatch the slot holds at least as much quantum as the field now   *)
(* grants in total: the field was lowered after this dispatch              *)
C11_Witness ==
  /\ currentCPU # NullCPU
  /\ currentCPU.qLeft >= getQuantum(quantumInput)
  /\ processes[currentCPU.proc].remainingTime < processes[currentCPU.proc].burstTime

(* C12: once every process is finished a further tick() is a no-op:        *)
(* currentTime, the process fields, the ready queue and the CPU slot are   *)
(* unchanged by it.                                                        *)
C12_NoOpAfterCompletion ==
  [][(TimerTick /\ AllDone) =>
       UNCHANGED << currentTime, processes, readyQueue, currentCPU >>]_vars

(* ---- a quantum field that holds no positive number ---- *)
InvalidQuantum == quantumInput \in { <<>>, <<"-", "1">>, <<"0">> }

LastEvent == historyList[Len(historyList)]

(* C13 as stated: with a non-positive or non-numeric quantum the           *)
(* simulation does not start: Start leaves the driver as it is and no tick *)
(* executes.                                                               *)
C13_Original ==
  [][InvalidQuantum =>
       /\ ~TimerTick
       /\ StartSim => UNCHANGED << running, tickHandle, timers >>]_vars

C13_State ==
  InvalidQuantum =>
    /\ quantumDisplay = 1
    /\ running => currentCPU = NullCPU

C13_Step ==
  InvalidQuantum =>
    /\ (StartSim /\ ~running) => (running' /\ timers' # {})
    /\ (TimerTick /\ RunsNext # 0) =>
         /\ currentCPU = NullCPU /\ currentCPU' = NullCPU
         /\ processes'[RunsNext].remainingTime = processes[RunsNext].remainingTime - 1
         /\ \E k \in Len(historyList) + 1 .. Len(historyList') :
              historyList'[k] = Ev(currentTime, "cpu", RunsNext)
         /\ \/ LastEvent' = Ev(currentTime', "finished", RunsNext)
            \/ /\ LastEvent' = Ev(currentTime', "expired", RunsNext)
               /\ readyQueue'[Len(readyQueue')] = RunsNext

(* C13 amended: a non-positive or non-numeric quantum is not rejected but  *)
(* replaced by 1: the display shows 1, Start starts the driver, and every  *)
(* process is dispatched with a quantum of 1, leaving the CPU slot after   *)
(* each executed tick.                                                     *)
C13_FallbackToOne == [](C13_State) /\ [][C13_Step]_vars

(* a run under an invalid quantum in which a process was preempted after   *)
(* one tick                                                                *)
C13_Witness ==
  /\ InvalidQuantum
  /\ running
  /\ currentTime >= 2
  /\ \E k \in 1..Len(historyList) : historyList[k].ev = "expired"

(* the state every reset has to produce *)
IsResetState ==
  /\ currentTime = 0
  /\ currentCPU = NullCPU
  /\ readyQueue = <<>>
  /\ ~running
  /\ tickHandle = NoHandle
  /\ timers = {}
  /\ Len(processes) = Len(initialProcesses)
  /\ \A i \in Procs :
       /\ processes[i].burstTime = initialProcesses[i].burstTime
       /\ processes[i].arrivalTime = initialProcesses[i].arrivalTime
       /\ processes[i].remainingTime = initialProcesses[i].burstTime
       /\ processes[i].waitingTime = 0
       /\ ~processes[i].arrived
       /\ ~processes[i].finished
       /\ processes[i].completionTime = NoTime
  /\ finishedOrder = <<>>
  /\ historyList = <<>>

(* C14: from any reachable state reset yields the same engine state:       *)
(* currentTime 0, CPU slot and ready queue empty, driver stopped, every    *)
(* process with remainingTime = burstTime, waitingTime 0, not arrived, not *)
(* finished, completionTime unset; so a second reset changes nothing.      *)
C14_Reset ==
  [][ResetSim => (IsResetState' /\ (IsResetState => UNCHANGED vars))]_vars

(* a state in the middle of a run, from which Reset has much to undo *)
C14_Witness ==
  /\ running
  /\ currentCPU # NullCPU
  /\ readyQueue # <<>>
  /\ \E i \in Procs : processes[i].finished
  /\ \E i \in Procs : processes[i].waitingTime > 0 /\ ~processes[i].finished

(* C15: between resets currentTime grows by exactly 1 in every tick(), in  *)
(* the executing and in the idle branch; nothing else changes it, and only *)
(* reset sets it back to 0.                                                *)
C15_Clock ==
  [][/\ TimerTick => currentTime' = currentTime + 1
     /\ currentTime' # currentTime =>
          \/ TimerTick /\ currentTime' = currentTime + 1
          \/ ResetSim /\ currentTime' = 0]_vars

(* the clock has counted executed and idle ticks *)
C15_Witness ==
  /\ idleTicks >= 1
  /\ currentTime >= idleTicks + 2
  /\ running

(* C16: the tick in which the last unfinished process finishes stops the   *)
(* driver before it returns (timer cleared, running false), so no further  *)
(* tick is issued until Start is pressed; a tick never stops the driver    *)
(* while some process is unfinished.                                       *)
C16_StopAtCompletion ==
  [][TimerTick =>
       IF AllDone'
         THEN ~running' /\ tickHandle' = NoHandle /\ timers' = {} /\ ~startBtnDisabled'
         ELSE UNCHANGED << running, tickHandle, timers, startBtnDisabled >> /\ running']_vars

(* the run has just completed and the driver is stopped *)
C16_Witness ==
  /\ AllDone
  /\ Len(processes) >= 2
  /\ ~running /\ timers = {} /\ tickHandle = NoHandle
  /\ LastEvent = Ev(currentTime, "finished", LastEvent.id)

C17_State ==
  /\ Cardinality(timers) <= 1
  /\ timers = (IF running THEN {tickHandle} ELSE {})
  /\ running <=> tickHandle # NoHandle
  /\ running <=> startBtnDisabled

C17_Step ==
  /\ StartSim => (~running /\ timers = {} /\ Cardinality(timers') = 1)
  /\ TimerTick => (running /\ timers = {tickHandle})
  /\ ResetSim => (timers' = {} /\ ~running' /\ IsResetState')
  /\ (IsResetState /\ ~StartSim) => IsResetState'

(* C17: under any interleaving of Start clicks, Reset clicks and timer     *)
(* firings at most one tick timer is active (Start cannot act while the    *)
(* simulation runs), a tick runs only for the one active timer, and after  *)
(* a Reset no tick executes until Start is pressed: the state stays the    *)
(* reset state.                                                            *)
C17_OneTimer == [](C17_State) /\ [][C17_Step]_vars

(* the driver was started again after a completed run *)
C17_Witness ==
  /\ running
  /\ timers = {tickHandle}
  /\ AllDone

(* ---- reading the event list ---- *)
(* the time stamp of the latest event of process i whose kind is in kinds *)
LastTime(kinds, i) ==
  LET ks == {k \in 1..Len(historyList) :
               historyList[k].ev \in kinds /\ historyList[k].id = i}
  IN historyList[CHOOSE k \in ks : \A j \in ks : j <= k].t

IsEnqueueEvent(e) == e.ev \in {"arrived", "expired"}

IsDispatchEvent(e) == e.ev = "cpu"

IdsOf(events) == [k \in 1..Len(events) |-> events[k].id]

EnqueuedIds == IdsOf(SelectSeq(historyList, IsEnqueueEvent))

DispatchedIds == IdsOf(SelectSeq(historyList, IsDispatchEvent))

C18_SlotState ==
  currentCPU # NullCPU =>
    /\ 1 <= currentCPU.qLeft
    /\ currentCPU.qLeft <= getQuantum(quantumInput) - 1
    /\ processes[currentCPU.proc].remainingTime >= 1
    /\ currentTime - LastTime({"cpu"}, currentCPU.proc)
         = getQuantum(quantumInput) - currentCPU.qLeft

C18_ExpiryStep ==
  (TimerTick /\ RunsNext # 0 /\ QLeftNext = 1 /\ processes[RunsNext].remainingTime > 1) =>
     /\ currentCPU' = NullCPU
     /\ readyQueue'[Len(readyQueue')] = RunsNext
     /\ LastEvent' = Ev(currentTime', "expired", RunsNext)

(* C18: per dispatch a process executes at most quantum ticks: an occupied *)
(* CPU slot has 1 <= quantumRemaining <= quantum - 1, a process with       *)
(* remainingTime >= 1 and as many ticks behind it as the quantum has lost; *)
(* when quantumRemaining reaches 0 with remainingTime > 0 the process goes *)
(* to the queue tail and the slot is cleared in that tick, also when the   *)
(* queue is otherwise empty.                                               *)
C18_QuantumBound == [](C18_SlotState) /\ [][C18_ExpiryStep]_vars

(* a lone process was preempted into an empty queue *)
C18_Witness ==
  /\ currentCPU = NullCPU
  /\ Len(readyQueue) = 1
  /\ historyList # <<>>
  /\ LastEvent = Ev(currentTime, "expired", readyQueue[1])
  /\ getQuantum(quantumInput) >= 2

(* C19: a process waits at most (N - 1) * quantum consecutive ticks in the *)
(* ready queue between being enqueued (arrival or preemption) and its next *)
(* dispatch, and none is overtaken: the dispatches follow the order of the *)
(* enqueues, the queue being what is not yet dispatched.                   *)
C19_BoundedWaiting ==
  /\ \A i \in Procs :
       InQueue(i) =>
         currentTime - LastTime({"arrived", "expired"}, i)
           <= (Len(processes) - 1) * getQuantum(quantumInput)
  /\ EnqueuedIds = DispatchedIds \o readyQueue

(* a queued process has waited the full (N - 1) * quantum ticks *)
C19_Witness ==
  /\ getQuantum(quantumInput) >= 2
  /\ Len(processes) >= 2
  /\ \E i \in Procs :
       /\ InQueue(i)
       /\ currentTime - LastTime({"arrived", "expired"}, i)
            = (Len(processes) - 1) * getQuantum(quantumInput)

C20_PreScanStep ==
  TimerTick =>
    {historyList'[k].id : k \in {j \in Len(historyList) + 1 .. Len(historyList') :
                                   historyList'[j].ev = "arrived" /\ historyList'[j].t = currentTime}}
      = (IF currentTime = 0 THEN {i \in Procs : processes[i].arrivalTime = 0} ELSE {})

(* C20: the pre-scan of tick() enqueues a process only in the first tick   *)
(* after a reset, and then only processes with arrivalTime 0; before every *)
(* later tick no un-arrived process has arrivalTime <= currentTime.        *)
C20_PreScanOnlyFirst ==
  [](currentTime >= 1 => PreDue = {}) /\ [][C20_PreScanStep]_vars

(* one process came in by the first pre-scan, another by a later post-scan *)
C20_Witness ==
  /\ currentTime >= 2
  /\ \E i, j \in Procs :
       /\ \E k \in 1..Len(historyList) : historyList[k] = Ev(0, "arrived", i)
       /\ \E k \in 1..Len(historyList) : historyList[k] = Ev(currentTime, "arrived", j)

====
